---- MODULE Spec2Model ----
(***************************************************************************)
(* Usage controller of the API package (packages/api/src/controllers/      *)
(* usage.ts): the overage and percentage calculators, the billing usage    *)
(* fetch, and the POST /update handler that synchronises the usage cache.  *)
(***************************************************************************)
EXTENDS Integers, Sequences, FiniteSets, TLC

(***************************************************************************)
(* JavaScript values the calculators handle: a number, undefined, or NaN.  *)
(***************************************************************************)
Num(n) == [k |-> "number", n |-> n]
Undefined == [k |-> "undefined", n |-> 0]
NaN == [k |-> "NaN", n |-> 0]

IsNum(x) == x.k = "number"

\* Truthiness of a value: undefined, NaN and 0 are falsy.
Truthy(x) == IsNum(x) /\ x.n # 0

\* a || b
OrElse(a, b) == IF Truthy(a) THEN a ELSE b

\* a - b: undefined converts to NaN, and NaN is absorbing.
Minus(a, b) == IF IsNum(a) /\ IsNum(b) THEN Num(a.n - b.n) ELSE NaN

\* Math.max(a, b): NaN if either argument converts to NaN.
MathMax(a, b) ==
    IF IsNum(a) /\ IsNum(b) THEN (IF a.n >= b.n THEN a ELSE b) ELSE NaN

\* (a / b) * 100 for b # 0.  On the inputs the model enumerates b divides
\* 100 * a, so the result is an integer and the integer division is exact.
PercentOf(a, b) ==
    IF IsNum(a) /\ IsNum(b) THEN Num((a.n * 100) \div b.n) ELSE NaN

(***************************************************************************)
(* Inputs of the calculators.                                              *)
(***************************************************************************)
\* Longest list of limit line-items of an enumerated plan.
MaxItems == 2

Names == {"Transcoding", "DELIVERY", "storage", "streaming"}
LimitVals == {0, 1, 2}
UsageVals == {-1, 0, 1, 3}

\* String.prototype.toLowerCase on the enumerated names.
ToLowerCase(s) ==
    CASE s = "Transcoding" -> "transcoding"
      [] s = "DELIVERY" -> "delivery"
      [] OTHER -> s

LineItems == [name : Names, limit : {Num(l) : l \in LimitVals}]

ItemSeqs == UNION {[1..n -> LineItems] : n \in 0..MaxItems}

PlanUndefined == [kind |-> "undefined", usage |-> <<>>]
PlanNoUsage == [kind |-> "nousage", usage |-> <<>>]
Plan(items) == [kind |-> "plan", usage |-> items]

\* The plan and the usage of the worked example.
ScenarioPlan ==
    Plan(<< [name |-> "Transcoding", limit |-> Num(1000)],
            [name |-> "DELIVERY", limit |-> Num(2000)],
            [name |-> "storage", limit |-> Num(500)] >>)
ScenarioUsage ==
    [kind |-> "object", TotalUsageMins |-> Num(1200),
     DeliveryUsageMins |-> Num(1500), StorageUsageMins |-> Num(600)]

Products == {PlanUndefined, PlanNoUsage} \cup {Plan(s) : s \in ItemSeqs}

UsageField == {Undefined} \cup {Num(u) : u \in UsageVals}
UsageObjects ==
    [kind : {"object"}, TotalUsageMins : UsageField,
     DeliveryUsageMins : UsageField, StorageUsageMins : UsageField]

\* A JSON body without any usage field, such as {"errors": [...]}.
ErrorBody ==
    [kind |-> "object", TotalUsageMins |-> Undefined,
     DeliveryUsageMins |-> Undefined, StorageUsageMins |-> Undefined]

\* The JSON body null, a body that is not JSON, and no value at all.
NullBody == [kind |-> "null"]
MalformedBody == [kind |-> "malformed"]
NoValue == [kind |-> "none"]

\* usage?.field : undefined when usage itself is null or undefined.
Field(usage, f) == IF usage.kind = "object" THEN usage[f] ELSE Undefined

NoLimits == [transcoding |-> Undefined, streaming |-> Undefined,
             storage |-> Undefined]

(***************************************************************************)
(* The usage cache and the data of POST /update.                           *)
(***************************************************************************)
\* Greatest period index; periods are 0..MaxPeriod, one time unit each.
MaxPeriod == 1

\* +new Date(2020, 0), in time units.
EpochStart == 0

Periods == 0..MaxPeriod
Times == EpochStart..(EpochStart + MaxPeriod + 1)

\* The date of a period: the time at which it begins.
DateOf(p) == EpochStart + p

\* The rows the usage history can hold for a period.  The id of a row is
\* derived from its period; the fields of a row vary with what was metered.
RowsOf(p) ==
    { [id |-> p, date |-> DateOf(p), totalUsageMinutes |-> 1,
       deliveryUsageMinutes |-> 1],
      [id |-> p, date |-> DateOf(p), totalUsageMinutes |-> 2] }

AllRows == UNION {RowsOf(p) : p \in Periods}

\* { kind: "usage", ...row }
Doc(row) ==
    [f \in {"kind"} \cup DOMAIN row |->
        IF f \in DOMAIN row THEN row[f] ELSE "usage"]

\* What store.get answers for a key without an entry.
NoDoc == [kind |-> "absent"]

EmptyCache == [id \in Periods |-> NoDoc]

\* req.store.get(`usage/${id}`)
StoreGet(c, id) == c[id]

\* req.store.create(doc)
StoreCreate(c, doc) == [c EXCEPT ![doc.id] = doc]

\* req.store.replace(doc): the entry is replaced wholesale.
StoreReplace(c, doc) == [c EXCEPT ![doc.id] = doc]

Cached(c) == {id \in Periods : c[id] # NoDoc}

\* db.usage.find({}, { limit: 1, order: "data->>'date' DESC" })[0]: the entry
\* of greatest date, if any.  (Dates are timestamps of equal length, so the
\* order of their text is their order.)
UsageFind(c) ==
    IF Cached(c) = {} THEN <<>>
    ELSE << c[CHOOSE id \in Cached(c) :
                  \A other \in Cached(c) : c[other].date <= c[id].date] >>

\* db.stream.usageHistory(fromTime, toTime): one row per period of the
\* closed window that has metered usage, in period order; nothing for an
\* empty window.  Only periods that have begun have usage.
InWindow(p, from, to, clock) ==
    /\ from < to
    /\ from <= DateOf(p) /\ DateOf(p) <= to
    /\ DateOf(p) <= clock

UsageHistory(from, to, clock) ==
    { h \in UNION {[1..n -> AllRows] : n \in 0..Cardinality(Periods)} :
        /\ \A i \in DOMAIN h : InWindow(h[i].id, from, to, clock)
        /\ \A i, j \in DOMAIN h : i < j => h[i].date < h[j].date }

\* Usage that was metered stays metered: a history for a window has a row
\* for every period of the window among those known to have usage.
StillMetered(h, known, from, to, clock) ==
    \A id \in known :
        InWindow(id, from, to, clock) => \E k \in DOMAIN h : h[k].id = id

\* The concurrent handlings of POST /update.
Procs == {"a", "b"}

\* A handling of POST /update that has not begun.
IdleHandler ==
    [pc |-> "idle",
     reqFrom |-> {}, reqTo |-> {}, newUsageReport |-> FALSE,
     fromTime |-> EpochStart, toTime |-> EpochStart,
     usageHistory |-> <<>>, i |-> 1, dbRow |-> NoDoc,
     resJson |-> <<>>, sent |-> <<>>, calls |-> <<>>,
     rerun |-> FALSE, before |-> EmptyCache,
     pending |-> {}, afterWatermark |-> FALSE]

(***************************************************************************)
(* What the metering endpoint can answer to one query.  node-fetch rejects *)
(* on a network failure only; a response of any status resolves.           *)
(***************************************************************************)
NetworkFailure == [net |-> "failed", ok |-> FALSE, body |-> NoValue]
Responses ==
    {NetworkFailure}
    \cup [net : {"up"}, ok : {TRUE},
          body : UsageObjects \cup {NullBody, MalformedBody, ScenarioUsage}]
    \cup [net : {"up"}, ok : {FALSE}, body : {ErrorBody, MalformedBody}]

VARIABLES
    product,            \* products[user.stripeProductId]
    response,           \* what the metering endpoint answers
    cpc,                \* position of getUsageData
    queries,            \* metering queries issued by the call
    billingUsage,       \* getUsageData: billingUsage
    limitsOver,         \* calculateOverUsage: limits
    limitsPct,          \* getUsagePercentageOfLimit: limits
    overUsage,          \* getUsageData: overUsage
    usagePercentages,   \* getUsageData: usagePercentages
    cache,              \* the usage table: id -> entry
    now,                \* the clock
    clients,            \* the callers that issue POST /update
    handler             \* per caller: the handling of its POST /update

\* handler[p] holds the position (pc), the query (reqFrom, reqTo: a set with
\* the value when given; newUsageReport: whether it is "true"), the locals
\* fromTime, toTime, usageHistory, the loop index i and dbRow, the bodies
\* res.json was called with (resJson), the responses sent, the store calls made, and as history whether the handling repeats
\* the one before it (rerun), the cache as it began (before), and when the
\* handling before it failed: the ids of the rows that one fetched and did
\* not write (pending) and whether that one had no fromTime (afterWatermark).

syncVars == <<cache, now, clients, handler>>

calcVars ==
    <<product, response, cpc, queries, billingUsage, limitsOver, limitsPct,
      overUsage, usagePercentages>>

vars == <<calcVars, syncVars>>

SyncIdle ==
    /\ cache = EmptyCache
    /\ now = EpochStart
    /\ clients = {}
    /\ handler = [p \in Procs |-> IdleHandler]

(***************************************************************************)
(* calculateOverUsage                                                      *)
(***************************************************************************)
\* Mutant: the first matching line-item of a category wins.
RECURSIVE ScanOverUsage_FirstWins(_, _, _)
ScanOverUsage_FirstWins(items, i, limits) ==
    IF i > Len(items) THEN limits
    ELSE LET item == items[i]
             l1 == IF /\ ToLowerCase(item.name) = "transcoding"
                      /\ limits.transcoding = Undefined
                   THEN [limits EXCEPT !.transcoding = item.limit] ELSE limits
             l2 == IF /\ ToLowerCase(item.name) = "delivery"
                      /\ limits.streaming = Undefined
                   THEN [l1 EXCEPT !.streaming = item.limit] ELSE l1
             l3 == IF /\ ToLowerCase(item.name) = "storage"
                      /\ limits.storage = Undefined
                   THEN [l2 EXCEPT !.storage = item.limit] ELSE l2
         IN  ScanOverUsage_FirstWins(items, i + 1, l3)

\* product.usage.forEach(...) of calculateOverUsage, from item i on.
RECURSIVE ScanOverUsage(_, _, _)
ScanOverUsage(items, i, limits) ==
    IF i > Len(items) THEN limits
    ELSE LET item == items[i]
             l1 == IF ToLowerCase(item.name) = "transcoding"
                   THEN [limits EXCEPT !.transcoding = item.limit] ELSE limits
             l2 == IF ToLowerCase(item.name) = "delivery"
                   THEN [l1 EXCEPT !.streaming = item.limit] ELSE l1
             l3 == IF ToLowerCase(item.name) = "storage"
                   THEN [l2 EXCEPT !.storage = item.limit] ELSE l2
         IN  ScanOverUsage(items, i + 1, l3)

\* The limits calculateOverUsage works with.
LimitsOverUsage(prod) ==
    IF prod.kind = "plan" THEN ScanOverUsage(prod.usage, 1, NoLimits)
    ELSE NoLimits

\* Mutant: the difference is not clamped at 0.
calculateOverUsage_NoClamp(prod, usage) ==
    LET limits == LimitsOverUsage(prod)
    IN  [TotalUsageMins |->
             Minus(Field(usage, "TotalUsageMins"),
                   OrElse(limits.transcoding, Num(0))),
         DeliveryUsageMins |->
             Minus(Field(usage, "DeliveryUsageMins"),
                   OrElse(limits.streaming, Num(0))),
         StorageUsageMins |->
             Minus(Field(usage, "StorageUsageMins"),
                   OrElse(limits.storage, Num(0)))]

calculateOverUsage(prod, usage) ==
    LET limits == LimitsOverUsage(prod)
    IN  [TotalUsageMins |->
             MathMax(Minus(Field(usage, "TotalUsageMins"),
                           OrElse(limits.transcoding, Num(0))), Num(0)),
         DeliveryUsageMins |->
             MathMax(Minus(Field(usage, "DeliveryUsageMins"),
                           OrElse(limits.streaming, Num(0))), Num(0)),
         StorageUsageMins |->
             MathMax(Minus(Field(usage, "StorageUsageMins"),
                           OrElse(limits.storage, Num(0))), Num(0))]

(***************************************************************************)
(* getUsagePercentageOfLimit                                               *)
(***************************************************************************)
\* product.usage.forEach(...) of getUsagePercentageOfLimit, from item i on.
RECURSIVE ScanPercentage(_, _, _)
ScanPercentage(items, i, limits) ==
    IF i > Len(items) THEN limits
    ELSE LET item == items[i]
             l1 == IF ToLowerCase(item.name) = "transcoding"
                   THEN [limits EXCEPT !.transcoding = item.limit] ELSE limits
             l2 == IF ToLowerCase(item.name) = "delivery"
                   THEN [l1 EXCEPT !.streaming = item.limit] ELSE l1
             l3 == IF ToLowerCase(item.name) = "storage"
                   THEN [l2 EXCEPT !.storage = item.limit] ELSE l2
         IN  ScanPercentage(items, i + 1, l3)

\* The limits getUsagePercentageOfLimit works with.
LimitsPercentage(prod) ==
    IF prod.kind = "plan" THEN ScanPercentage(prod.usage, 1, NoLimits)
    ELSE NoLimits

\* Mutant: only limit !== 0 guards the division.
PercentageOfLimit_NoPresenceGuard(value, limit) ==
    IF limit # Num(0)
    THEN MathMax(PercentOf(value, limit), Num(0))
    ELSE Num(0)

\* Mutant: the ratio is returned as a fraction of 1000.
PercentageOfLimit_PerMille(value, limit) ==
    IF Truthy(limit) /\ limit # Num(0)
    THEN MathMax(PercentOf(PercentOf(value, Num(10)), limit), Num(0))
    ELSE Num(0)

\* limit && limit !== 0 ? Math.max((value / limit) * 100, 0) : 0
PercentageOfLimit(value, limit) ==
    IF Truthy(limit) /\ limit # Num(0)
    THEN MathMax(PercentOf(value, limit), Num(0))
    ELSE Num(0)

getUsagePercentageOfLimit(prod, usage) ==
    LET limits == LimitsPercentage(prod)
    IN  [TotalUsageMins |->
             PercentageOfLimit(Field(usage, "TotalUsageMins"),
                               limits.transcoding),
         DeliveryUsageMins |->
             PercentageOfLimit(Field(usage, "DeliveryUsageMins"),
                               limits.streaming),
         StorageUsageMins |->
             PercentageOfLimit(Field(usage, "StorageUsageMins"),
                               limits.storage)]

(***************************************************************************)
(* getUsageData: getBillingUsage, then the two calculators.                *)
(***************************************************************************)
NoReport == [kind |-> "none"]

InitCalc ==
    /\ \/ product \in Products /\ response \in Responses
       \/ /\ product = ScenarioPlan
          /\ response = [net |-> "up", ok |-> TRUE, body |-> ScenarioUsage]
    /\ cpc = "start"
    /\ queries = 0
    /\ billingUsage = NoValue
    /\ limitsOver = NoLimits
    /\ limitsPct = NoLimits
    /\ overUsage = NoReport
    /\ usagePercentages = NoReport
    /\ SyncIdle

\* getBillingUsage: one fetch, then res.json().  The promise rejects when
\* fetch rejects (network failure) or when the body does not parse; the
\* status of the response is not looked at.
GetBillingUsage ==
    /\ cpc = "start"
    /\ queries' = queries + 1
    /\ IF response.net = "failed" \/ response.body = MalformedBody
       THEN /\ cpc' = "rejected"
            /\ UNCHANGED billingUsage
       ELSE /\ cpc' = "fetched"
            /\ billingUsage' = response.body
    /\ UNCHANGED <<product, response, limitsOver, limitsPct, overUsage,
                   usagePercentages, syncVars>>

CalculateOverUsage ==
    /\ cpc = "fetched"
    /\ limitsOver' = LimitsOverUsage(product)
    /\ overUsage' = calculateOverUsage(product, billingUsage)
    /\ cpc' = "over"
    /\ UNCHANGED <<product, response, queries, billingUsage, limitsPct,
                   usagePercentages, syncVars>>

GetUsagePercentageOfLimit ==
    /\ cpc = "over"
    /\ limitsPct' = LimitsPercentage(product)
    /\ usagePercentages' = getUsagePercentageOfLimit(product, billingUsage)
    /\ cpc' = "returned"
    /\ UNCHANGED <<product, response, queries, billingUsage, limitsOver,
                   overUsage, syncVars>>

NextCalc ==
    \/ GetBillingUsage
    \/ CalculateOverUsage
    \/ GetUsagePercentageOfLimit

SpecCalc == InitCalc /\ [][NextCalc]_vars

(***************************************************************************)
(* POST /update                                                            *)
(***************************************************************************)
CalcIdle ==
    /\ product = PlanUndefined
    /\ response = NetworkFailure
    /\ cpc = "idle"
    /\ queries = 0
    /\ billingUsage = NoValue
    /\ limitsOver = NoLimits
    /\ limitsPct = NoLimits
    /\ overUsage = NoReport
    /\ usagePercentages = NoReport

\* One caller; the usage table is empty until the first synchronisation.
Init ==
    /\ CalcIdle
    /\ cache = EmptyCache
    /\ now = EpochStart
    /\ clients = {"a"}
    /\ handler = [p \in Procs |-> IdleHandler]

Ended(p) == handler[p].pc \in {"done", "threw"}

\* A store call of the loop rejected and the handler threw.
Failed(p) == handler[p].pc = "failed"

\* The ids of the rows a failed handling fetched and did not write.
Unwritten(p) ==
    IF Failed(p)
    THEN {handler[p].usageHistory[k].id :
             k \in handler[p].i..Len(handler[p].usageHistory)}
    ELSE {}

\* The element of a query parameter that is given.
Given(param) == CHOOSE t \in param : TRUE

OptionalTimes == {{}} \cup {{t} : t \in Times}

\* A request arrives: let { fromTime, toTime, newUsageReport } = req.query.
Update(p) ==
    /\ p \in clients
    /\ handler[p].pc = "idle" \/ Ended(p) \/ Failed(p)
    /\ \E f \in OptionalTimes, t \in OptionalTimes, r \in BOOLEAN :
          handler' = [handler EXCEPT ![p] =
              [IdleHandler EXCEPT
                  !.pc = IF r THEN "reportUsage" ELSE "resolve",
                  !.reqFrom = f, !.reqTo = t, !.newUsageReport = r,
                  !.before = cache,
                  !.pending = Unwritten(p),
                  !.afterWatermark = Failed(p) /\ handler[p].reqFrom = {}]]
    /\ UNCHANGED <<calcVars, cache, now, clients>>

\* The caller repeats the request it has just had handled, for the window
\* that handling resolved; the usage history will answer as it did.
UpdateAgain(p) ==
    /\ p \in clients
    /\ Ended(p)
    /\ handler' = [handler EXCEPT ![p] =
          [IdleHandler EXCEPT
              !.pc = IF handler[p].newUsageReport THEN "reportUsage"
                     ELSE "resolve",
              !.reqFrom = {handler[p].fromTime},
              !.reqTo = {handler[p].toTime},
              !.newUsageReport = handler[p].newUsageReport,
              !.usageHistory = handler[p].usageHistory,
              !.rerun = TRUE,
              !.before = cache]]
    /\ UNCHANGED <<calcVars, cache, now, clients>>

\* if (newUsageReport === "true"): await reportUsage, then res.status(200)
\* and res.json(newUsageResult).
ReportUsage(p) ==
    /\ handler[p].pc = "reportUsage"
    /\ handler' = [handler EXCEPT ![p] =
          [@ EXCEPT !.pc = "resolve",
                    !.resJson = Append(@, "newUsageResult"),
                    !.sent = Append(@, "newUsageResult")]]
    /\ UNCHANGED <<calcVars, cache, now, clients>>

\* Mutant: without fromTime the window always starts at the beginning.
ResolveWindow_NoWatermark(p) ==
    /\ handler[p].pc = "resolve"
    /\ handler' = [handler EXCEPT ![p] =
          [@ EXCEPT
              !.pc = "fetch",
              !.fromTime = IF handler[p].reqFrom # {}
                           THEN Given(handler[p].reqFrom) ELSE EpochStart,
              !.toTime = IF handler[p].reqTo # {}
                         THEN Given(handler[p].reqTo) ELSE now]]
    /\ UNCHANGED <<calcVars, cache, now, clients>>

\* if (!fromTime): the date of the latest cached entry, else the beginning;
\* if (!toTime): the current time.
ResolveWindow(p) ==
    /\ handler[p].pc = "resolve"
    /\ LET rows == UsageFind(cache)
       IN  handler' = [handler EXCEPT ![p] =
               [@ EXCEPT
                   !.pc = "fetch",
                   !.fromTime =
                       IF handler[p].reqFrom # {}
                       THEN Given(handler[p].reqFrom)
                       ELSE IF Len(rows) > 0 THEN rows[1].date
                       ELSE EpochStart,
                   !.toTime = IF handler[p].reqTo # {}
                              THEN Given(handler[p].reqTo) ELSE now]]
    /\ UNCHANGED <<calcVars, cache, now, clients>>

\* let usageHistory = await db.stream.usageHistory(fromTime, toTime, ...)
FetchUsageHistory(p) ==
    /\ handler[p].pc = "fetch"
    /\ \E h \in IF handler[p].rerun THEN {handler[p].usageHistory}
               ELSE UsageHistory(handler[p].fromTime, handler[p].toTime, now) :
          /\ StillMetered(h, handler[p].pending, handler[p].fromTime,
                          handler[p].toTime, now)
          /\ handler' = [handler EXCEPT ![p] =
                 [@ EXCEPT !.pc = "loop", !.usageHistory = h, !.i = 1]]
    /\ UNCHANGED <<calcVars, cache, now, clients>>

\* Mutant: the rows are taken from the last to the first.
Row_FromLast(p) ==
    handler[p].usageHistory[Len(handler[p].usageHistory) + 1 - handler[p].i]

Row(p) == handler[p].usageHistory[handler[p].i]

\* const dbRow = await req.store.get(`usage/${row.id}`)
LoopGet(p) ==
    /\ handler[p].pc = "loop"
    /\ handler[p].i <= Len(handler[p].usageHistory)
    /\ \E ok \in BOOLEAN :
          handler' = [handler EXCEPT ![p] =
              IF ok
              THEN [@ EXCEPT
                       !.pc = "write",
                       !.dbRow = StoreGet(cache, Row(p).id),
                       !.calls = Append(@, <<"get", Row(p).id>>)]
              ELSE [@ EXCEPT
                       !.pc = "failed",
                       !.calls = Append(@, <<"get", Row(p).id>>)]]
    /\ UNCHANGED <<calcVars, cache, now, clients>>

\* The store call the handler makes for the row, given dbRow.
WriteCall(p) ==
    <<IF handler[p].dbRow # NoDoc THEN "replace" ELSE "create", Row(p).id>>

\* The store call rejects: nothing is written and the handler throws.
WriteFails(p) ==
    /\ cache' = cache
    /\ handler' = [handler EXCEPT ![p] =
          [@ EXCEPT !.pc = "failed", !.calls = Append(@, WriteCall(p))]]

\* Mutant: the usage of the cached entry is added to the fetched one.
LoopWrite_Accumulate(p) ==
    /\ handler[p].pc = "write"
    /\ \E ok \in BOOLEAN :
       \/ /\ ok
          /\ IF handler[p].dbRow # NoDoc
             THEN cache' = StoreReplace(cache,
                      [Doc(Row(p)) EXCEPT !.totalUsageMinutes =
                          @ + handler[p].dbRow.totalUsageMinutes])
             ELSE cache' = StoreCreate(cache, Doc(Row(p)))
          /\ handler' = [handler EXCEPT ![p] =
                 [@ EXCEPT
                     !.pc = "loop",
                     !.i = @ + 1,
                     !.calls = Append(@, WriteCall(p))]]
       \/ ~ok /\ WriteFails(p)
    /\ UNCHANGED <<calcVars, now, clients>>

\* Mutant: the fetched row is merged into the cached entry.
LoopWrite_Merge(p) ==
    /\ handler[p].pc = "write"
    /\ \E ok \in BOOLEAN :
       \/ /\ ok
          /\ IF handler[p].dbRow # NoDoc
             THEN cache' = StoreReplace(cache,
                      [f \in DOMAIN handler[p].dbRow \cup DOMAIN Doc(Row(p)) |->
                          IF f \in DOMAIN Doc(Row(p)) THEN Doc(Row(p))[f]
                          ELSE handler[p].dbRow[f]])
             ELSE cache' = StoreCreate(cache, Doc(Row(p)))
          /\ handler' = [handler EXCEPT ![p] =
                 [@ EXCEPT
                     !.pc = "loop",
                     !.i = @ + 1,
                     !.calls = Append(@, WriteCall(p))]]
       \/ ~ok /\ WriteFails(p)
    /\ UNCHANGED <<calcVars, now, clients>>

\* if (dbRow) await req.store.replace({ kind: "usage", ...row })
\* else await req.store.create({ kind: "usage", ...row })
LoopWrite(p) ==
    /\ handler[p].pc = "write"
    /\ \E ok \in BOOLEAN :
       \/ /\ ok
          /\ IF handler[p].dbRow # NoDoc
             THEN cache' = StoreReplace(cache, Doc(Row(p)))
             ELSE cache' = StoreCreate(cache, Doc(Row(p)))
          /\ handler' = [handler EXCEPT ![p] =
                 [@ EXCEPT
                     !.pc = "loop",
                     !.i = @ + 1,
                     !.calls = Append(@, WriteCall(p))]]
       \/ ~ok /\ WriteFails(p)
    /\ UNCHANGED <<calcVars, now, clients>>

\* res.status(200); res.json(usageHistory).  Once a response has been sent,
\* res.json throws (the headers cannot be set again) and nothing is sent.
Respond(p) ==
    /\ handler[p].pc = "loop"
    /\ handler[p].i > Len(handler[p].usageHistory)
    /\ handler' = [handler EXCEPT ![p] =
          IF handler[p].sent # <<>>
          THEN [@ EXCEPT !.pc = "threw",
                         !.resJson = Append(@, "usageHistory")]
          ELSE [@ EXCEPT !.pc = "done",
                         !.resJson = Append(@, "usageHistory"),
                         !.sent = Append(@, "usageHistory")]]
    /\ UNCHANGED <<calcVars, cache, now, clients>>

\* Time passes.
Tick ==
    /\ now + 1 \in Times
    /\ now' = now + 1
    /\ UNCHANGED <<calcVars, cache, clients, handler>>

Next ==
    \/ \E p \in Procs : Update(p)
    \/ \E p \in Procs : UpdateAgain(p)
    \/ \E p \in Procs : ReportUsage(p)
    \/ \E p \in Procs : ResolveWindow(p)
    \/ \E p \in Procs : FetchUsageHistory(p)
    \/ \E p \in Procs : LoopGet(p)
    \/ \E p \in Procs : LoopWrite(p)
    \/ \E p \in Procs : Respond(p)
    \/ Tick

Spec == Init /\ [][Next]_vars

(***************************************************************************)
(* Properties of POST /update, checked under Spec (one caller).            *)
(***************************************************************************)
\* The greatest date of a cache that holds an entry.
MaxDate(c) ==
    CHOOSE d \in {c[id].date : id \in Cached(c)} :
        \A id \in Cached(c) : c[id].date <= d

Resolved(p) == handler[p].pc \in {"fetch", "loop", "write", "done", "threw"}
Fetched(p) == handler[p].pc \in {"loop", "write", "done", "threw"}

FetchedIds(p) ==
    {handler[p].usageHistory[k].id : k \in DOMAIN handler[p].usageHistory}

Writes(p) ==
    {k \in DOMAIN handler[p].calls :
        handler[p].calls[k][1] \in {"create", "replace"}}

\* C1: when the synchronisation is run again for the same window and the
\* usage history answers with the same rows, the cache after the second run
\* equals the cache after the first (the cache as the second run began).
C1_Idempotence ==
    \A p \in Procs :
        (handler[p].rerun /\ Ended(p)) => cache = handler[p].before

\* C1 witness: a second run over two rows has ended, having replaced both.
C1_Witness ==
    \E p \in Procs :
        /\ handler[p].rerun /\ handler[p].pc = "done"
        /\ Len(handler[p].usageHistory) = 2
        /\ Len(handler[p].calls) = 4
        /\ handler[p].calls[2][1] = "replace"
        /\ handler[p].calls[4][1] = "replace"
        /\ cache = handler[p].before

\* C2, in every state: without fromTime the window starts at the greatest
\* cached date (at the beginning when the cache is empty), so at or after
\* the date of every cached entry; no row dated before it is fetched and no
\* store call is made for an entry dated before it, which stays as it was.
C2_FromIsWatermark ==
    \A p \in Procs :
        (Resolved(p) /\ handler[p].reqFrom = {}) =>
            LET before == handler[p].before
                from == handler[p].fromTime
            IN  /\ from = IF Cached(before) = {} THEN EpochStart
                          ELSE MaxDate(before)
                /\ \A id \in Cached(before) : before[id].date <= from
                /\ Fetched(p) =>
                       \A k \in DOMAIN handler[p].usageHistory :
                           handler[p].usageHistory[k].date >= from
                /\ \A k \in DOMAIN handler[p].calls :
                       DateOf(handler[p].calls[k][2]) >= from
                /\ \A id \in Cached(before) :
                       before[id].date < from => cache[id] = before[id]

\* C2, in every step: without toTime the window ends at the current time.
C2_ToIsNow ==
    \A p \in Procs :
        (/\ handler[p].pc = "resolve"
         /\ handler'[p].pc = "fetch"
         /\ handler[p].reqTo = {}) => handler'[p].toTime = now

EmptySyncOf(p) ==
    /\ handler[p].usageHistory = <<>>
    /\ handler[p].pc = "done"
    /\ handler[p].sent = <<"usageHistory">>
    /\ Writes(p) = {}
    /\ cache = handler[p].before

\* C3 as stated: a synchronisation with fromTime = toTime, or one whose
\* fetch returns no rows, returns the empty sequence, performs no store
\* create or replace, leaves the cache unchanged and raises no error.
C3_EmptyWindow ==
    \A p \in Procs :
        (/\ Ended(p)
         /\ \/ handler[p].fromTime = handler[p].toTime
            \/ handler[p].usageHistory = <<>>) => EmptySyncOf(p)

\* C3 where it does hold: without newUsageReport.
C3_EmptyWindowWithoutReport ==
    \A p \in Procs :
        (/\ Ended(p)
         /\ ~handler[p].newUsageReport
         /\ \/ handler[p].fromTime = handler[p].toTime
            \/ handler[p].usageHistory = <<>>) => EmptySyncOf(p)

\* C3, the store's side, which holds with newUsageReport too.
C3_EmptyWindowWritesNothing ==
    \A p \in Procs :
        (/\ Ended(p)
         /\ \/ handler[p].fromTime = handler[p].toTime
            \/ handler[p].usageHistory = <<>>) =>
            /\ handler[p].usageHistory = <<>>
            /\ Writes(p) = {}
            /\ cache = handler[p].before

\* C10: in a handling whose store calls succeed, for the k-th fetched row the
\* store is read at the row's id and then written once, by replace if the entry existed and by create otherwise;
\* when the handling has ended the entry of every fetched row is the row
\* itself (with kind "usage" and no other field), the entries of ids that
\* were not fetched are as before, and no entry is ever deleted.
C10_UpsertPerPeriod ==
    \A p \in Procs :
        LET h == handler[p]
            done == IF Fetched(p) THEN h.i - 1 ELSE 0
        IN  /\ ~Failed(p) =>
                   Len(h.calls) = 2 * done + (IF h.pc = "write" THEN 1 ELSE 0)
            /\ \A k \in 1..done :
                   /\ h.calls[2 * k - 1] = <<"get", h.usageHistory[k].id>>
                   /\ h.calls[2 * k] =
                          << IF h.before[h.usageHistory[k].id] # NoDoc
                             THEN "replace" ELSE "create",
                             h.usageHistory[k].id >>
            /\ h.pc = "write" =>
                   h.calls[2 * done + 1] = <<"get", h.usageHistory[h.i].id>>
            /\ Ended(p) =>
                   /\ done = Len(h.usageHistory)
                   /\ \A k \in DOMAIN h.usageHistory :
                          LET r == h.usageHistory[k]
                              entry == cache[r.id]
                          IN  /\ DOMAIN entry = DOMAIN r \cup {"kind"}
                              /\ entry.kind = "usage"
                              /\ \A f \in DOMAIN r : entry[f] = r[f]
                   /\ \A id \in Periods \ FetchedIds(p) :
                          cache[id] = h.before[id]
            /\ \A id \in Cached(h.before) : cache[id] # NoDoc

\* C10 witness: two rows were fetched; the entry of period 0 existed with a
\* delivery field and was replaced by a row without one, the entry of
\* period 1 did not exist and was created.
C10_Witness ==
    \E p \in Procs :
        /\ handler[p].pc = "done"
        /\ Len(handler[p].usageHistory) = 2
        /\ handler[p].calls =
               << <<"get", 0>>, <<"replace", 0>>, <<"get", 1>>, <<"create", 1>> >>
        /\ "deliveryUsageMinutes" \in DOMAIN handler[p].before[0]
        /\ "deliveryUsageMinutes" \notin DOMAIN cache[0]
        /\ cache[0] = Doc(handler[p].usageHistory[1])
        /\ cache[1] = Doc(handler[p].usageHistory[2])

\* A handling without fromTime and toTime.
NoWindow(p) == handler[p].reqFrom = {} /\ handler[p].reqTo = {}

\* Every row a failed handling wrote before it failed is in the cache.
PartialProgressKept(p) ==
    Failed(p) =>
        \A k \in 1..(handler[p].i - 1) :
            cache[handler[p].usageHistory[k].id] = Doc(handler[p].usageHistory[k])

\* The window of the handling contains every period its predecessor left
\* unwritten.
WindowCoversPending(p) ==
    Resolved(p) =>
        \A id \in handler[p].pending :
            /\ handler[p].fromTime <= DateOf(id)
            /\ DateOf(id) <= handler[p].toTime

\* When the handling has ended, the periods its predecessor left unwritten
\* are in the cache.
PendingCached(p) ==
    Ended(p) => \A id \in handler[p].pending : cache[id] # NoDoc

C12_FailedWitness ==
    \E p \in Procs :
        /\ Failed(p) /\ handler[p].i = 2
        /\ handler[p].before[handler[p].usageHistory[1].id] = NoDoc
        /\ cache[handler[p].usageHistory[1].id] = Doc(handler[p].usageHistory[1])

\* C13 as stated: one handling of POST /update answers exactly once,
\* whatever fromTime, toTime and newUsageReport are: when it has ended,
\* res.json has been called once and no call of it has thrown; with
\* newUsageReport "true" it does not answer with the report result and then
\* again with the usage history.
C13_SingleResponse ==
    \A p \in Procs :
        /\ Len(handler[p].resJson) <= 1
        /\ Ended(p) =>
               /\ handler[p].pc = "done"
               /\ Len(handler[p].resJson) = 1
               /\ handler[p].sent = handler[p].resJson

\* C13 where it does hold: without newUsageReport.
C13_SingleResponseWithoutReport ==
    \A p \in Procs :
        ~handler[p].newUsageReport =>
            /\ Len(handler[p].resJson) <= 1
            /\ Ended(p) =>
                   /\ handler[p].pc = "done"
                   /\ handler[p].sent = <<"usageHistory">>
                   /\ handler[p].resJson = <<"usageHistory">>

(***************************************************************************)
(* Properties of the calculators, checked under SpecCalc.                  *)
(***************************************************************************)
Metrics == {"TotalUsageMins", "DeliveryUsageMins", "StorageUsageMins"}

\* The limit key and the line-item category of a metric.
LimitKey(m) ==
    CASE m = "TotalUsageMins" -> "transcoding"
      [] m = "DeliveryUsageMins" -> "streaming"
      [] m = "StorageUsageMins" -> "storage"

\* The category a line-item name denotes, whatever its case.
CategoryOf(name) ==
    CASE name \in {"transcoding", "Transcoding", "TRANSCODING"} -> "transcoding"
      [] name \in {"delivery", "Delivery", "DELIVERY"} -> "streaming"
      [] name \in {"storage", "Storage", "STORAGE"} -> "storage"
      [] OTHER -> "none"

Matching(prod, key) ==
    {i \in 1..Len(prod.usage) : CategoryOf(prod.usage[i].name) = key}

Last(S) == CHOOSE i \in S : \A j \in S : j <= i

\* The limit a plan declares for a category: that of its last matching
\* line-item, undefined when there is none (or no plan).
DeclaredLimit(prod, key) ==
    IF prod.kind = "plan" /\ Matching(prod, key) # {}
    THEN prod.usage[Last(Matching(prod, key))].limit
    ELSE Undefined

\* The declared limit as a number, an absent one counting as 0.
LimitOrZero(prod, key) ==
    IF DeclaredLimit(prod, key) = Undefined THEN 0
    ELSE DeclaredLimit(prod, key).n

Max0(n) == IF n >= 0 THEN n ELSE 0

OverUsageComputed == cpc \in {"over", "returned"}

NonNegativeUsage ==
    /\ billingUsage.kind = "object"
    /\ \A m \in Metrics : IsNum(billingUsage[m]) /\ billingUsage[m].n >= 0

\* C4: with the three usage values >= 0 (limits are >= 0), calculateOverUsage
\* returns for each metric max(usage - limit, 0), an absent limit counting
\* as 0; so every field is >= 0, and with no limit declared for a metric its
\* overage is its full usage.
C4_OverageFormula ==
    (OverUsageComputed /\ NonNegativeUsage) =>
        \A m \in Metrics :
            /\ overUsage[m] =
                   Num(Max0(billingUsage[m].n - LimitOrZero(product, LimitKey(m))))
            /\ IsNum(overUsage[m]) /\ overUsage[m].n >= 0
            /\ DeclaredLimit(product, LimitKey(m)) = Undefined
                   => overUsage[m] = billingUsage[m]

\* C4 witness: usage 3 over a transcoding limit of 1 (overage 2), delivery
\* usage under its limit (overage 0), storage usage 3 with no storage limit
\* (overage 3).
C4_Witness ==
    /\ OverUsageComputed /\ NonNegativeUsage
    /\ DeclaredLimit(product, "transcoding") = Num(1)
    /\ billingUsage.TotalUsageMins = Num(3)
    /\ overUsage.TotalUsageMins = Num(2)
    /\ DeclaredLimit(product, "streaming") = Num(2)
    /\ billingUsage.DeliveryUsageMins = Num(1)
    /\ overUsage.DeliveryUsageMins = Num(0)
    /\ DeclaredLimit(product, "storage") = Undefined
    /\ overUsage.StorageUsageMins = Num(3)

Triple(a, b, c) ==
    [TotalUsageMins |-> Num(a), DeliveryUsageMins |-> Num(b),
     StorageUsageMins |-> Num(c)]

ScenarioComputed ==
    /\ cpc = "returned"
    /\ product = ScenarioPlan
    /\ billingUsage = ScenarioUsage

\* C5 as stated: limits (1000, 2000, 500) and usage (1200, 1500, 600) give
\* overage (100, 0, 100) and percentages (120, 75, 120).
C5_Original ==
    ScenarioComputed =>
        /\ overUsage = Triple(100, 0, 100)
        /\ usagePercentages = Triple(120, 75, 120)

\* C5 amended: limits (1000, 2000, 500) and usage (1200, 1500, 600) give
\* overage (200, 0, 100) and percentages (120, 75, 120).
C5_Scenario ==
    ScenarioComputed =>
        /\ overUsage = Triple(200, 0, 100)
        /\ usagePercentages = Triple(120, 75, 120)

\* C5 witness: the scenario has been computed.
C5_Witness ==
    /\ ScenarioComputed
    /\ overUsage.TotalUsageMins = Num(200)
    /\ usagePercentages.DeliveryUsageMins = Num(75)

\* C6: per metric, getUsagePercentageOfLimit returns 0 when the limit is
\* absent or 0, and max((usage / limit) * 100, 0) when the limit is present
\* and non-zero (for a usage value that is a number).
C6_PercentageGuard ==
    cpc = "returned" =>
        \A m \in Metrics :
            LET limit == DeclaredLimit(product, LimitKey(m))
                value == Field(billingUsage, m)
            IN  /\ (limit = Undefined \/ limit = Num(0))
                       => usagePercentages[m] = Num(0)
                /\ (limit # Undefined /\ limit # Num(0) /\ IsNum(value))
                       => usagePercentages[m] =
                              Num(Max0((value.n * 100) \div limit.n))

\* C6 witness: a transcoding limit of 0 (percentage 0), usage 3 against a
\* delivery limit of 2 (150), no storage limit (percentage 0).
C6_Witness ==
    /\ cpc = "returned"
    /\ DeclaredLimit(product, "transcoding") = Num(0)
    /\ Field(billingUsage, "TotalUsageMins") = Num(3)
    /\ usagePercentages.TotalUsageMins = Num(0)
    /\ DeclaredLimit(product, "streaming") = Num(2)
    /\ Field(billingUsage, "DeliveryUsageMins") = Num(3)
    /\ usagePercentages.DeliveryUsageMins = Num(150)
    /\ DeclaredLimit(product, "storage") = Undefined
    /\ Field(billingUsage, "StorageUsageMins") = Num(1)
    /\ usagePercentages.StorageUsageMins = Num(0)

\* C7 as stated: a usage value that is missing (or a missing usage object)
\* counts as 0, so its overage is 0 and its percentage is 0, and every
\* output field is a non-negative number.
C7_TotalOnMissingUsage ==
    cpc = "returned" =>
        \A m \in Metrics :
            /\ Field(billingUsage, m) = Undefined
                   => overUsage[m] = Num(0) /\ usagePercentages[m] = Num(0)
            /\ IsNum(overUsage[m]) /\ overUsage[m].n >= 0
            /\ IsNum(usagePercentages[m]) /\ usagePercentages[m].n >= 0

\* C8: each calculator resolves, per category, the limit of the last
\* line-item whose name matches the category whatever its case; names that
\* match nothing change nothing; without a matching item (or without a plan)
\* the limit stays undefined; and both calculators resolve the same limits.
C8_LimitResolution ==
    /\ OverUsageComputed =>
           \A key \in {"transcoding", "streaming", "storage"} :
               limitsOver[key] = DeclaredLimit(product, key)
    /\ cpc = "returned" =>
           /\ \A key \in {"transcoding", "streaming", "storage"} :
                  limitsPct[key] = DeclaredLimit(product, key)
           /\ limitsPct = limitsOver

\* C8 witness: a plan with two "Transcoding" items of different limits; the
\* limit of the later one is resolved by both calculators.
C8_Witness ==
    /\ cpc = "returned"
    /\ product.kind = "plan" /\ Len(product.usage) = 2
    /\ product.usage[1] = [name |-> "Transcoding", limit |-> Num(1)]
    /\ product.usage[2] = [name |-> "Transcoding", limit |-> Num(2)]
    /\ limitsOver.transcoding = Num(2)
    /\ limitsPct.transcoding = Num(2)
    /\ limitsOver.streaming = Undefined

FetchFailed ==
    \/ response.net = "failed"
    \/ ~response.ok
    \/ response.body = MalformedBody

\* C9 as stated: when the metering query fails (network failure, non-success
\* status, malformed body) the call ends in an error, no usage value is
\* returned and nothing is computed from it; the query is issued once.
C9_FetchFailureSurfaces ==
    /\ queries <= 1
    /\ (cpc # "start" /\ FetchFailed) =>
           /\ cpc = "rejected"
           /\ billingUsage = NoValue
           /\ overUsage = NoReport
           /\ usagePercentages = NoReport

\* The percentages are exact: every limit divides 100 times the usage.
ExactPercentages ==
    cpc = "returned" =>
        \A m \in Metrics :
            (Truthy(limitsPct[LimitKey(m)]) /\ IsNum(Field(billingUsage, m))) =>
                (Field(billingUsage, m).n * 100) % limitsPct[LimitKey(m)].n = 0

(***************************************************************************)
(* Two callers: handlings of POST /update interleave at every await.       *)
(***************************************************************************)
\* Two callers; the usage table is empty until the first synchronisation.
InitConc ==
    /\ CalcIdle
    /\ cache = EmptyCache
    /\ now = EpochStart
    /\ clients = Procs
    /\ handler = [p \in Procs |-> IdleHandler]

\* A caller's one request arrives, without newUsageReport.
UpdateOnce(p) ==
    /\ p \in clients
    /\ handler[p].pc = "idle"
    /\ \E f \in OptionalTimes, t \in OptionalTimes :
          handler' = [handler EXCEPT ![p] =
              [IdleHandler EXCEPT
                  !.pc = "resolve",
                  !.reqFrom = f, !.reqTo = t,
                  !.before = cache]]
    /\ UNCHANGED <<calcVars, cache, now, clients>>

NextConc ==
    \/ \E p \in Procs : UpdateOnce(p)
    \/ \E p \in Procs : ResolveWindow(p)
    \/ \E p \in Procs : FetchUsageHistory(p)
    \/ \E p \in Procs : LoopGet(p)
    \/ \E p \in Procs : LoopWrite(p)
    \/ \E p \in Procs : Respond(p)
    \/ Tick

SpecConc == InitConc /\ [][NextConc]_vars

\* The handling is between a row's lookup and its write.
Looked(p) == handler[p].pc = "write"

\* C11: at every write of a row, in every interleaving of two handlings, the
\* lookup's answer is still the cache's: create is called only for an id
\* that has no cache entry, and replace only for an id that has one.
C11_AtomicUpsert ==
    \A p \in Procs :
        Looked(p) => (handler[p].dbRow # NoDoc <=> cache[Row(p).id] # NoDoc)

====
